---- MODULE Spec2Model ----
(***************************************************************************)
(* Model of config_anonymizerV10.py: an Arista configuration anonymizer.   *)
(*                                                                         *)
(* A line of text is a sequence of one-character strings.  The regular     *)
(* expressions of the script are written as syntax trees, node for node,   *)
(* and matched by a backtracking matcher that returns the successful       *)
(* matches in the order in which Python's re module tries them (greedy     *)
(* repetition first, alternatives left to right), so that search, match,   *)
(* fullmatch and sub pick the match Python picks.                          *)
(***************************************************************************)
EXTENDS Integers, Sequences, FiniteSets, TLC

(***************************************************************************)
(* Character classes (ASCII part of Python's \d, \w, \s).                  *)
(***************************************************************************)
Lower == <<"a","b","c","d","e","f","g","h","i","j","k","l","m",
           "n","o","p","q","r","s","t","u","v","w","x","y","z">>
Upper == <<"A","B","C","D","E","F","G","H","I","J","K","L","M",
           "N","O","P","Q","R","S","T","U","V","W","X","Y","Z">>
DigitSeq == <<"0","1","2","3","4","5","6","7","8","9">>

Range(f) == {f[i] : i \in DOMAIN f}

Digit == Range(DigitSeq)
Letter == Range(Lower) \cup Range(Upper)
WordChar == Digit \cup Letter \cup {"_"}
Space == {" ", "\t", "\n", "\r", "\f"}

\* re.IGNORECASE: a character stands for both of its cases.
BothCases(c) ==
  IF \E i \in DOMAIN Lower : Lower[i] = c \/ Upper[i] = c
  THEN LET i == CHOOSE j \in DOMAIN Lower : Lower[j] = c \/ Upper[j] = c
       IN {Lower[i], Upper[i]}
  ELSE {c}

IgnoreCase(S) == UNION {BothCases(c) : c \in S}

(***************************************************************************)
(* Sequence helpers.                                                       *)
(***************************************************************************)
RECURSIVE Flat(_)
Flat(ss) == IF ss = <<>> THEN <<>> ELSE Head(ss) \o Flat(Tail(ss))

Slice(s, a, b) == [i \in 1..(b - a) |-> s[a + i - 1]]   \* s[a-1:b-1] of Python

\* F(v), with v evaluated once and bound as a value ("x = v; F(x)").
Strict(v, F(_)) == CHOOSE r \in {F(x) : x \in {v}} : TRUE

(***************************************************************************)
(* Regular-expression syntax trees.                                        *)
(***************************************************************************)
Set(S)         == [t |-> "set", s |-> S]                 \* [...]
NotSet(S)      == [t |-> "nset", s |-> S]                \* [^...], \S, .
WordB          == [t |-> "wb"]                           \* \b
Bol            == [t |-> "bol"]                          \* ^ (no MULTILINE)
Cat(a)         == [t |-> "cat", a |-> a]
Alt(a)         == [t |-> "alt", a |-> a]                 \* a1|a2|...
Rep(r, lo, hi) == [t |-> "rep", r |-> r, lo |-> lo, hi |-> hi, inf |-> FALSE]
RepInf(r, lo)  == [t |-> "rep", r |-> r, lo |-> lo, hi |-> lo, inf |-> TRUE]
Grp(k, r)      == [t |-> "grp", k |-> k, r |-> r]        \* k-th capture group
Opt(r)         == Rep(r, 0, 1)                           \* r?
Lit(cs)        == Cat([i \in DOMAIN cs |-> Set({cs[i]})])
LitI(cs)       == Cat([i \in DOMAIN cs |-> Set(BothCases(cs[i]))])
AnyChar        == NotSet({"\n"})                         \* .
NonSpace       == NotSet(Space)                          \* \S

NGroups == 4
NoGroups == [k \in 1..NGroups |-> <<0, 0>>]

\* \b: exactly one of the characters before and after position p is a word character.
IsBoundary(s, p) ==
  LET before == p > 1 /\ s[p - 1] \in WordChar
      after  == p <= Len(s) /\ s[p] \in WordChar
  IN before # after

(***************************************************************************)
(* The matcher.  A match state is [p |-> next position, g |-> groups].     *)
(* M(re, s, st) is the sequence of states in which re can end when started *)
(* in st, in backtracking order: its head is the match Python reports.     *)
(***************************************************************************)
RECURSIVE M(_, _, _), CatFrom(_, _, _, _), RepFrom(_, _, _, _)

\* Whether character c matches the one-character node re.
CharOk(re, c) == IF re.t = "set" THEN c \in re.s ELSE c \notin re.s

\* The least element of a non-empty set of integers.
Least(S) == CHOOSE i \in S : \A j \in S : i <= j

\* A greedy repetition of a one-character node: it takes the longest run first
\* and gives back one character at a time, down to re.lo.
RepRun(re, s, st) ==
  LET bad == {i \in st.p..Len(s) : ~CharOk(re.r, s[i])}
      run == (IF bad = {} THEN Len(s) + 1 ELSE Least(bad)) - st.p
  IN Strict(IF re.inf \/ run <= re.hi THEN run ELSE re.hi,
            LAMBDA n : IF n < re.lo THEN <<>>
                       ELSE [k \in 1..(n - re.lo + 1) |->
                               [st EXCEPT !.p = @ + (n - k + 1)]])

CatFrom(a, i, s, st) ==
  IF i > Len(a) THEN <<st>>
  ELSE Strict(M(a[i], s, st),
              LAMBDA L : Flat([k \in DOMAIN L |-> CatFrom(a, i + 1, s, L[k])]))

RepFrom(re, n, s, st) ==
  LET more == IF re.inf \/ n < re.hi
              THEN Strict(M(re.r, s, st),
                          LAMBDA L : Flat([k \in DOMAIN L |->
                                             IF L[k].p > st.p
                                             THEN RepFrom(re, n + 1, s, L[k])
                                             ELSE <<>>]))
              ELSE <<>>
      stop == IF n >= re.lo THEN <<st>> ELSE <<>>
  IN more \o stop

M(re, s, st) ==
  CASE re.t = "set"  -> IF st.p <= Len(s) /\ s[st.p] \in re.s
                        THEN <<[st EXCEPT !.p = @ + 1]>> ELSE <<>>
    [] re.t = "nset" -> IF st.p <= Len(s) /\ s[st.p] \notin re.s
                        THEN <<[st EXCEPT !.p = @ + 1]>> ELSE <<>>
    [] re.t = "wb"   -> IF IsBoundary(s, st.p) THEN <<st>> ELSE <<>>
    [] re.t = "bol"  -> IF st.p = 1 THEN <<st>> ELSE <<>>
    [] re.t = "cat"  -> CatFrom(re.a, 1, s, st)
    [] re.t = "alt"  -> Flat([k \in DOMAIN re.a |-> M(re.a[k], s, st)])
    [] re.t = "rep"  -> IF re.r.t \in {"set", "nset"} THEN RepRun(re, s, st)
                        ELSE RepFrom(re, 0, s, st)
    [] re.t = "grp"  -> Strict(M(re.r, s, st),
                               LAMBDA L : [k \in DOMAIN L |->
                                             [L[k] EXCEPT !.g[re.k] = <<st.p, L[k].p>>]])

\* pattern.match(s, pos): the first match that starts at position p, or <<>>.
MatchAt(re, s, p) ==
  Strict(M(re, s, [p |-> p, g |-> NoGroups]),
         LAMBDA L : IF L = <<>> THEN <<>> ELSE <<L[1]>>)

\* pattern.fullmatch(s): some way of matching ends at the end of s.
FullMatch(re, s) ==
  Strict(s, LAMBDA v :
    Strict(M(re, v, [p |-> 1, g |-> NoGroups]),
           LAMBDA L : \E k \in DOMAIN L : L[k].p = Len(v) + 1))

\* m.group(k); an unset group reads as the empty string.
Group(s, st, k) == Slice(s, st.g[k][1], st.g[k][2])

\* A replacement template is a sequence of [lit |-> chars, grp |-> k]: the
\* literal text, then the text of group k (k = 0: nothing).
Expand(tpl, s, st) ==
  Flat([i \in DOMAIN tpl |->
          tpl[i].lit \o (IF tpl[i].grp = 0 THEN <<>> ELSE Group(s, st, tpl[i].grp))])

\* pattern.sub(template, s): leftmost non-overlapping matches, left to right.
\* None of the script's patterns matches the empty string.
\* starts: the positions of s at which the pattern matches.
RECURSIVE SubFrom(_, _, _, _, _)
SubFrom(re, tpl, s, p, starts) ==
  IF \A q \in starts : q < p THEN Slice(s, p, Len(s) + 1)
  ELSE Strict(Least({q \in starts : q >= p}), LAMBDA q :
         Strict(MatchAt(re, s, q), LAMBDA m :
           Slice(s, p, q) \o Expand(tpl, s, m[1])
             \o SubFrom(re, tpl, s, m[1].p, starts)))

Sub(re, tpl, s) ==
  Strict(s, LAMBDA v :
    Strict({q \in 1..Len(v) : MatchAt(re, v, q) # <<>>},
           LAMBDA starts : SubFrom(re, tpl, v, 1, starts)))

(***************************************************************************)
(* The script's patterns.                                                  *)
(***************************************************************************)
Octet13 == Rep(Set(Digit), 1, 3)                         \* \d{1,3}
Dot == Set({"."})
Colon == Set({":"})

\* r"\b(\d{1,3})\.(\d{1,3})\.(\d{1,3})\.(\d{1,3})\b"
ipv4_pattern ==
  Cat(<<WordB, Grp(1, Octet13), Dot, Grp(2, Octet13), Dot,
        Grp(3, Octet13), Dot, Grp(4, Octet13), WordB>>)

HexSet == IgnoreCase(Digit \cup {"A", "B", "C", "D", "E", "F"})
H14 == Rep(Set(HexSet), 1, 4)                            \* [A-F0-9]{1,4}
HC == Cat(<<H14, Colon>>)                                \* [A-F0-9]{1,4}:
CH == Cat(<<Colon, H14>>)                                \* :[A-F0-9]{1,4}

\* (?:25[0-5]|2[0-4][0-9]|[01]?[0-9][0-9]?)
DecOctet ==
  Alt(<<Cat(<<Set({"2"}), Set({"5"}), Set({"0","1","2","3","4","5"})>>),
        Cat(<<Set({"2"}), Set({"0","1","2","3","4"}), Set(Digit)>>),
        Cat(<<Opt(Set({"0","1"})), Set(Digit), Opt(Set(Digit))>>)>>)

\* (?:DecOctet\.){3}DecOctet
DottedQuad == Cat(<<Rep(Cat(<<DecOctet, Dot>>), 3, 3), DecOctet>>)

\* The twelve alternatives of ipv6_pattern, in the order of the source.
ipv6_pattern ==
  Alt(<<Cat(<<Rep(HC, 7, 7), H14>>),
        Cat(<<Rep(HC, 1, 7), Colon>>),
        Cat(<<Rep(HC, 1, 6), Colon, H14>>),
        Cat(<<Rep(HC, 1, 5), Rep(CH, 1, 2)>>),
        Cat(<<Rep(HC, 1, 4), Rep(CH, 1, 3)>>),
        Cat(<<Rep(HC, 1, 3), Rep(CH, 1, 4)>>),
        Cat(<<Rep(HC, 1, 2), Rep(CH, 1, 5)>>),
        Cat(<<H14, Colon, Rep(CH, 1, 6)>>),
        Cat(<<Colon, Alt(<<Rep(CH, 1, 7), Colon>>)>>),
        Cat(<<LitI(<<"f","e","8","0",":">>),
              Rep(Cat(<<Colon, Rep(Set(HexSet), 0, 4)>>), 0, 4),
              Set({"%"}),
              RepInf(Set(Letter \cup Digit), 1)>>),
        Cat(<<Colon, Colon,
              Opt(Cat(<<LitI(<<"f","f","f","f">>),
                        Opt(Cat(<<Colon, Rep(Set({"0"}), 1, 4)>>)),
                        Colon>>)),
              DottedQuad>>),
        Cat(<<Rep(HC, 1, 4), Colon, DottedQuad>>)>>)

\* r"\b([0-9a-fA-F]{1,4}):([0-9a-fA-F]{1,4})(:[0-9a-fA-F:]*)?\b"
ipv6_sub_pattern ==
  Cat(<<WordB, Grp(1, H14), Colon, Grp(2, H14),
        Opt(Grp(3, Cat(<<Colon, RepInf(Set(HexSet \cup {":"}), 0)>>))),
        WordB>>)

\* r"^\s*vrf definition (\S+)"
vrf_definition_pattern ==
  Cat(<<Bol, RepInf(Set(Space), 0),
        Lit(<<"v","r","f"," ","d","e","f","i","n","i","t","i","o","n"," ">>),
        Grp(1, RepInf(NonSpace, 1))>>)

\* r"^(?P<indent>\s*)description .+"
description_pattern ==
  Cat(<<Bol, Grp(1, RepInf(Set(Space), 0)),
        Lit(<<"d","e","s","c","r","i","p","t","i","o","n"," ">>),
        RepInf(AnyChar, 1)>>)

\* Variant: "!" followed by a space and nothing else is a comment too (.* for .+).
comment_pattern_star ==
  Cat(<<Bol, Grp(1, RepInf(Set(Space), 0)), Lit(<<"!"," ">>), RepInf(AnyChar, 0)>>)

\* r"^(?P<indent>\s*)! .+"
comment_pattern ==
  Cat(<<Bol, Grp(1, RepInf(Set(Space), 0)), Lit(<<"!"," ">>), RepInf(AnyChar, 1)>>)

\* f"x.x.{m.group(3)}.{m.group(4)}"
ipv4_template ==
  <<[lit |-> <<"x",".","x",".">>, grp |-> 3], [lit |-> <<".">>, grp |-> 4]>>

\* Variant: the replacement drops the captured remainder (r'y:y' for r'y:y\3').
ipv6_template_no_remainder == <<[lit |-> <<"y",":","y">>, grp |-> 0]>>

\* f"y:y{m.group(3) if m.group(3) else ''}"
ipv6_template == <<[lit |-> <<"y",":","y">>, grp |-> 3]>>

\* r"\g<indent>description <description removed>"
description_template ==
  <<[lit |-> <<>>, grp |-> 1],
    [lit |-> <<"d","e","s","c","r","i","p","t","i","o","n"," ","<","d","e","s","c",
               "r","i","p","t","i","o","n"," ","r","e","m","o","v","e","d",">">>,
     grp |-> 0]>>

\* r"\g<indent>! <comment removed>"
comment_template ==
  <<[lit |-> <<>>, grp |-> 1],
    [lit |-> <<"!"," ","<","c","o","m","m","e","n","t"," ","r","e","m","o","v","e",
               "d",">">>,
     grp |-> 0]>>

(***************************************************************************)
(* The str methods the script uses.                                        *)
(***************************************************************************)
\* s.strip()
Strip(s) ==
  LET keep == {i \in DOMAIN s : s[i] \notin Space}
  IN IF keep = {} THEN <<>>
     ELSE LET a == CHOOSE i \in keep : \A j \in keep : i <= j
              b == CHOOSE i \in keep : \A j \in keep : i >= j
          IN Slice(s, a, b + 1)

\* s.startswith(prefix)
StartsWith(s, prefix) ==
  Len(s) >= Len(prefix) /\ \A i \in DOMAIN prefix : s[i] = prefix[i]

\* s.split(None, 1) of a stripped string: the first word, and the rest after
\* the run of whitespace that follows it, when there is one.
SplitFirstWord(s) ==
  LET ws == {i \in DOMAIN s : s[i] \in Space}
  IN IF ws = {} THEN <<s>>
     ELSE LET a == CHOOSE i \in ws : \A j \in ws : i <= j
              rest == {i \in DOMAIN s : i > a /\ s[i] \notin Space}
              b == CHOOSE i \in rest : \A j \in rest : i <= j
          IN IF rest = {} THEN <<Slice(s, 1, a)>>
             ELSE <<Slice(s, 1, a), Slice(s, b, Len(s) + 1)>>

\* s.rsplit(":", 1)
RSplitColon(s) ==
  LET cs == {i \in DOMAIN s : s[i] = ":"}
  IN IF cs = {} THEN <<s>>
     ELSE LET c == CHOOSE i \in cs : \A j \in cs : i >= j
          IN <<Slice(s, 1, c), Slice(s, c + 1, Len(s) + 1)>>

(***************************************************************************)
(* The script's functions.                                                 *)
(***************************************************************************)
replace_ips(ln) ==
  Sub(ipv6_sub_pattern, ipv6_template, Sub(ipv4_pattern, ipv4_template, ln))

process_line_for_text_masking(ln, md, mc) ==
  Strict(IF md THEN Sub(description_pattern, description_template, ln) ELSE ln,
         LAMBDA line1 :
           IF mc THEN Sub(comment_pattern, comment_template, line1) ELSE line1)

\* Variant: no third branch, an rd value that is no IP address gets the
\* general masking.
ProcessRdLineNoAsnBranch(ln, rd_parts) ==
  IF FullMatch(ipv4_pattern, rd_parts[1])
  THEN Sub(ipv4_pattern, ipv4_template, ln)
  ELSE IF FullMatch(ipv6_pattern, rd_parts[1])
       THEN Sub(ipv6_sub_pattern, ipv6_template, ln)
       ELSE replace_ips(ln)

\* Variant: an rd value with an IPv4 lead gets the general masking.
ProcessRdLineIpv4General(ln, rd_parts) ==
  IF FullMatch(ipv4_pattern, rd_parts[1])
  THEN replace_ips(ln)
  ELSE IF FullMatch(ipv6_pattern, rd_parts[1])
       THEN Sub(ipv6_sub_pattern, ipv6_template, ln)
       ELSE ln

\* The branch of an "rd" line whose value holds a ":" (lines 100-112).
ProcessRdLine(ln, rd_parts) ==
  IF FullMatch(ipv4_pattern, rd_parts[1])
  THEN Sub(ipv4_pattern, ipv4_template, ln)
  ELSE IF FullMatch(ipv6_pattern, rd_parts[1])
       THEN Sub(ipv6_sub_pattern, ipv6_template, ln)
       ELSE ln

process_line_for_ips(ln0) ==
  Strict(ln0, LAMBDA ln :
    Strict(Strip(ln), LAMBDA stripped_line :
      IF StartsWith(stripped_line, <<"r","d"," ">>)
      THEN Strict(SplitFirstWord(stripped_line), LAMBDA parts :
             IF Len(parts) > 1
             THEN Strict(RSplitColon(parts[2]), LAMBDA rd_parts :
                    IF Len(rd_parts) = 2 THEN ProcessRdLine(ln, rd_parts)
                    ELSE replace_ips(ln))
             ELSE replace_ips(ln))
      ELSE replace_ips(ln)))

(***************************************************************************)
(* VRF pseudonyms (main, pass 1 and pass 2 A).                             *)
(***************************************************************************)
\* str(n)
RECURSIVE DecStr(_)
DecStr(n) ==
  IF n < 10 THEN <<DigitSeq[n + 1]>>
  ELSE DecStr(n \div 10) \o <<DigitSeq[(n % 10) + 1]>>

\* f"vrf_{vrf_counter}"
MaskedVrfName(n) == <<"v","r","f","_">> \o DecStr(n)

\* Variant: the membership test that guards registration always fails.
InVrfMapNever(name, map) == FALSE

\* "original_vrf_name not in vrf_map"; vrf_map is a dict, which keeps the order
\* of insertion: a sequence of [original |-> name, masked |-> pseudonym].
InVrfMap(name, map) == \E k \in DOMAIN map : map[k].original = name

\* re.compile(r"\b" + re.escape(original_vrf) + r"\b")
vrf_occurrence_pattern(original_vrf) == Cat(<<WordB, Lit(original_vrf), WordB>>)

\* The loop "for original_vrf, masked_vrf in vrf_map.items()" over one line.
RECURSIVE ReplaceVrfNamesFrom(_, _, _)
ReplaceVrfNamesFrom(processed_line, map, k) ==
  IF k > Len(map) THEN processed_line
  ELSE Strict(Sub(vrf_occurrence_pattern(map[k].original),
                  <<[lit |-> map[k].masked, grp |-> 0]>>, processed_line),
              LAMBDA replaced : ReplaceVrfNamesFrom(replaced, map, k + 1))

ReplaceVrfNames(ln, map) == ReplaceVrfNamesFrom(ln, map, 1)

\* Variant: IP masking runs before the VRF rewrite.
ProcessLineIpsFirst(ln, map, md, mc) ==
  ReplaceVrfNames(process_line_for_ips(process_line_for_text_masking(ln, md, mc)), map)

\* The body of the pass-2 loop: A. VRF names, B. text masking, C. IP masking.
ProcessLineTwoPass(ln, map, md, mc) ==
  process_line_for_ips(process_line_for_text_masking(ReplaceVrfNames(ln, map), md, mc))

\* The body of the one-pass loop: A. text masking, B. IP masking.
ProcessLineOnePass(ln, md, mc) ==
  process_line_for_ips(process_line_for_text_masking(ln, md, mc))

(***************************************************************************)
(* Bounds and inputs.                                                      *)
(***************************************************************************)
MaxLines == 3        \* lines piped to the script
MaxIpTokens == 3     \* tokens in a line given to the IP masking functions
MaxTextTokens == 3   \* tokens in a line given to the text masking function

Flags == {"-vrfname", "-desc", "-comment"}

LineDefMgmt  == <<"v","r","f"," ","d","e","f","i","n","i","t","i","o","n"," ",
                  "M","G","M","T","\n">>
LineDefTen   == <<"v","r","f"," ","d","e","f","i","n","i","t","i","o","n"," ",
                  "1","0","\n">>
LineDefVrf1  == <<"v","r","f"," ","d","e","f","i","n","i","t","i","o","n"," ",
                  "v","r","f","_","1","\n">>
\* " description MGMT 10.10.1.1" with a CR LF terminator
LineDescCrLf == <<" ","d","e","s","c","r","i","p","t","i","o","n"," ","M","G","M","T",
                  " ","1","0",".","1","0",".","1",".","1","\r","\n">>
\* "vrf forwarding MGMT" with no terminator: the last line of a file only
LineUseNoEol == <<"v","r","f"," ","f","o","r","w","a","r","d","i","n","g"," ",
                  "M","G","M","T">>

TerminatedLines == {LineDefMgmt, LineDefTen, LineDefVrf1, LineDescCrLf}

\* What readlines() or iteration over stdin can yield: every line but the last
\* ends in "\n".
Inputs ==
  UNION {{body \o last : body \in [1..n -> TerminatedLines],
                         last \in {<<>>} \cup {<<l>> : l \in TerminatedLines \cup {LineUseNoEol}}}
         : n \in 0..(MaxLines - 1)}

TokensUpTo(Tokens, n) == {Flat(ts) : ts \in UNION {[1..m -> Tokens] : m \in 0..n}}

IpTokens ==
  {<<"r","d"," ">>,
   <<"1","0",".","2","0",".","3","0",".","4","0">>,
   <<"f","e","8","0",":","1","2","3","4",":","5","6","7","8",":",":","1">>,
   <<"a","b",":","c","d">>,
   <<"6","5","0","0","0">>,
   <<":","1","0","0">>,
   <<" ">>,
   <<"x">>}

TextTokens ==
  {<<"d","e","s","c","r","i","p","t","i","o","n"," ">>,
   <<"d","e","s","c","r","i","p","t","i","o","n">>,
   <<"!"," ">>,
   <<"!">>,
   <<"s","e","c","r","e","t">>,
   <<" ">>}

Indents == {<<>>, <<" ">>}
Terminators == {<<>>, <<"\n">>, <<"\r","\n">>}

IpLines ==
  {ind \o body \o term : ind \in Indents, body \in TokensUpTo(IpTokens, MaxIpTokens),
                         term \in {<<>>, <<"\n">>}}
TextLines ==
  {ind \o body \o term : ind \in Indents \cup {<<"\t">>},
                         body \in TokensUpTo(TextTokens, MaxTextTokens),
                         term \in Terminators}

(***************************************************************************)
(* State.                                                                  *)
(***************************************************************************)
VARIABLES
  args,            \* set(sys.argv[1:])
  input,           \* every line piped to the script (never changes)
  stdin,           \* the lines not read yet
  mask_vrf_names, mask_desc, mask_comment,
  config_lines,    \* the lines readlines() returned (two-pass mode)
  vrf_map,         \* the registry, in insertion order
  vrf_counter,
  idx,             \* position of the running for loop in config_lines
  line,            \* the loop variable of the one-pass loop; a function's argument
  stdout,          \* the lines printed so far
  pc,
  ret              \* the value a function returned (function specifications)

vars == <<args, input, stdin, mask_vrf_names, mask_desc, mask_comment, config_lines,
          vrf_map, vrf_counter, idx, line, stdout, pc, ret>>

Init ==
  /\ args \in SUBSET Flags
  /\ input \in Inputs
  /\ stdin = input
  /\ mask_vrf_names = FALSE /\ mask_desc = FALSE /\ mask_comment = FALSE
  /\ config_lines = <<>> /\ vrf_map = <<>> /\ vrf_counter = 1 /\ idx = 1
  /\ line = <<>> /\ stdout = <<>> /\ ret = <<>>
  /\ pc = "start"

(***************************************************************************)
(* main()                                                                  *)
(***************************************************************************)
\* lines 129-134: the flags, and the choice of mode
ParseArgs ==
  /\ pc = "start"
  /\ mask_vrf_names' = ("-vrfname" \in args)
  /\ mask_desc' = ("-desc" \in args)
  /\ mask_comment' = ("-comment" \in args)
  /\ pc' = IF "-vrfname" \in args THEN "readlines" ELSE "stream"
  /\ UNCHANGED <<args, input, stdin, config_lines, vrf_map, vrf_counter, idx, line,
                 stdout, ret>>

\* lines 136-138: config_lines = sys.stdin.readlines(); vrf_map = {}; vrf_counter = 1
ReadLines ==
  /\ pc = "readlines"
  /\ config_lines' = stdin
  /\ stdin' = <<>>
  /\ vrf_map' = <<>>
  /\ vrf_counter' = 1
  /\ idx' = 1
  /\ pc' = "pass1"
  /\ UNCHANGED <<args, input, mask_vrf_names, mask_desc, mask_comment, line, stdout, ret>>

\* lines 141-147: one iteration of pass 1
Pass1Step ==
  /\ pc = "pass1"
  /\ idx <= Len(config_lines)
  /\ \E match \in {MatchAt(vrf_definition_pattern, config_lines[idx], 1)} :
       IF match # <<>> /\ ~InVrfMap(Group(config_lines[idx], match[1], 1), vrf_map)
       THEN /\ vrf_map' = Append(vrf_map,
                                 [original |-> Group(config_lines[idx], match[1], 1),
                                  masked |-> MaskedVrfName(vrf_counter)])
            /\ vrf_counter' = vrf_counter + 1
       ELSE UNCHANGED <<vrf_map, vrf_counter>>
  /\ idx' = idx + 1
  /\ UNCHANGED <<args, input, stdin, mask_vrf_names, mask_desc, mask_comment,
                 config_lines, line, stdout, pc, ret>>

\* Variant: the discovery pass may stop before it has scanned every line.
Pass1DoneEarly ==
  /\ pc = "pass1"
  /\ idx' = 1
  /\ pc' = "pass2"
  /\ UNCHANGED <<args, input, stdin, mask_vrf_names, mask_desc, mask_comment,
                 config_lines, vrf_map, vrf_counter, line, stdout, ret>>

\* line 150: pass 1 is over, pass 2 starts
Pass1Done ==
  /\ pc = "pass1"
  /\ idx > Len(config_lines)
  /\ idx' = 1
  /\ pc' = "pass2"
  /\ UNCHANGED <<args, input, stdin, mask_vrf_names, mask_desc, mask_comment,
                 config_lines, vrf_map, vrf_counter, line, stdout, ret>>

\* lines 150-166: one iteration of pass 2
Pass2Step ==
  /\ pc = "pass2"
  /\ idx <= Len(config_lines)
  /\ stdout' = Append(stdout, ProcessLineTwoPass(config_lines[idx], vrf_map,
                                                 mask_desc, mask_comment))
  /\ idx' = idx + 1
  /\ UNCHANGED <<args, input, stdin, mask_vrf_names, mask_desc, mask_comment,
                 config_lines, vrf_map, vrf_counter, line, pc, ret>>

Pass2Done ==
  /\ pc = "pass2"
  /\ idx > Len(config_lines)
  /\ pc' = "done"
  /\ UNCHANGED <<args, input, stdin, mask_vrf_names, mask_desc, mask_comment,
                 config_lines, vrf_map, vrf_counter, idx, line, stdout, ret>>

\* line 169: "for line in sys.stdin" yields the next line
StreamRead ==
  /\ pc = "stream"
  /\ stdin # <<>>
  /\ line' = Head(stdin)
  /\ stdin' = Tail(stdin)
  /\ pc' = "stream_body"
  /\ UNCHANGED <<args, input, mask_vrf_names, mask_desc, mask_comment, config_lines,
                 vrf_map, vrf_counter, idx, stdout, ret>>

\* lines 170-177: the body of the one-pass loop
StreamBody ==
  /\ pc = "stream_body"
  /\ stdout' = Append(stdout, ProcessLineOnePass(line, mask_desc, mask_comment))
  /\ pc' = "stream"
  /\ UNCHANGED <<args, input, stdin, mask_vrf_names, mask_desc, mask_comment,
                 config_lines, vrf_map, vrf_counter, idx, line, ret>>

\* line 169: stdin is exhausted
StreamEof ==
  /\ pc = "stream"
  /\ stdin = <<>>
  /\ pc' = "done"
  /\ UNCHANGED <<args, input, stdin, mask_vrf_names, mask_desc, mask_comment,
                 config_lines, vrf_map, vrf_counter, idx, line, stdout, ret>>

Next ==
  \/ ParseArgs
  \/ ReadLines \/ Pass1Step \/ Pass1Done \/ Pass2Step \/ Pass2Done
  \/ StreamRead \/ StreamBody \/ StreamEof

Spec == Init /\ [][Next]_vars

(***************************************************************************)
(* The functions on their own: a line is drawn, a function is applied.     *)
(***************************************************************************)
InitFn(Lines) ==
  /\ args = {} /\ input = <<>> /\ stdin = <<>>
  /\ mask_vrf_names = FALSE /\ mask_desc = FALSE /\ mask_comment = FALSE
  /\ config_lines = <<>> /\ vrf_map = <<>> /\ vrf_counter = 1 /\ idx = 1
  /\ line \in Lines /\ stdout = <<>> /\ ret = <<>>
  /\ pc = "call"

FnUnchanged == <<args, input, stdin, mask_vrf_names, config_lines, vrf_map,
                 vrf_counter, idx, line, stdout>>

CallReplaceIps ==
  /\ pc = "call"
  /\ ret' = replace_ips(line)
  /\ pc' = "replace_ips"
  /\ UNCHANGED <<FnUnchanged, mask_desc, mask_comment>>

CallProcessLineForIps ==
  /\ pc = "call"
  /\ ret' = process_line_for_ips(line)
  /\ pc' = "process_line_for_ips"
  /\ UNCHANGED <<FnUnchanged, mask_desc, mask_comment>>

CallProcessLineForTextMasking ==
  /\ pc = "call"
  /\ \E md \in BOOLEAN, mc \in BOOLEAN :
       /\ mask_desc' = md
       /\ mask_comment' = mc
       /\ ret' = process_line_for_text_masking(line, md, mc)
  /\ pc' = "process_line_for_text_masking"
  /\ UNCHANGED FnUnchanged

InitIp == InitFn(IpLines)
NextIp == CallReplaceIps \/ CallProcessLineForIps
SpecIp == InitIp /\ [][NextIp]_vars

InitText == InitFn(TextLines)
NextText == CallProcessLineForTextMasking
SpecText == InitText /\ [][NextText]_vars

(***************************************************************************)
(* Vocabulary of the properties.                                           *)
(***************************************************************************)
\* The matches pattern.sub replaces, in order: [a |-> start, m |-> match state].
RECURSIVE MatchesFrom(_, _, _, _)
MatchesFrom(re, s, p, starts) ==
  IF \A q \in starts : q < p THEN <<>>
  ELSE Strict(Least({q \in starts : q >= p}), LAMBDA q :
         Strict(MatchAt(re, s, q), LAMBDA m :
           <<[a |-> q, m |-> m[1]]>> \o MatchesFrom(re, s, m[1].p, starts)))

Matches(re, s) ==
  Strict(s, LAMBDA v :
    Strict({q \in 1..Len(v) : MatchAt(re, v, q) # <<>>},
           LAMBDA starts : MatchesFrom(re, v, 1, starts)))

\* w occurs in s at position q.
OccursAt(w, s, q) == q + Len(w) - 1 <= Len(s) /\ \A i \in DOMAIN w : s[q + i - 1] = w[i]

Contains(s, w) == \E q \in 1..(Len(s) + 1) : OccursAt(w, s, q)

\* The number of occurrences of w in s, and of its occurrences as a whole word.
CountSub(w, s) == Cardinality({q \in 1..Len(s) : OccursAt(w, s, q)})
CountWord(w, s) ==
  Cardinality({q \in 1..Len(s) : /\ OccursAt(w, s, q)
                                 /\ IsBoundary(s, q)
                                 /\ IsBoundary(s, q + Len(w))})

\* The position of the first character of s that is not white space (Len(s) + 1
\* when there is none).
FirstNonSpace(s) == Least({i \in DOMAIN s : s[i] \notin Space} \cup {Len(s) + 1})

FnLineFe80 == <<"f","e","8","0",":","1","2","3","4",":","5","6","7","8",":",":","1">>
FnLineAbCd == <<"a","b",":","c","d">>
FnLineIpv4 == <<"1","0",".","2","0",".","3","0",".","4","0">>

(***************************************************************************)
(* C3                                                                      *)
(***************************************************************************)
\* C3 (as claimed): replace_ips replaces the first two octets of every IPv4 token
\* of the line by x.x and leaves the token's last two octets verbatim in the
\* returned line: for every IPv4 match of the line, x.x.<third>.<fourth> is in
\* the line that replace_ips returns.
C3_Ipv4LastTwoOctetsVerbatim ==
  pc = "replace_ips" =>
    \A k \in DOMAIN Matches(ipv4_pattern, line) :
      LET mt == Matches(ipv4_pattern, line)[k].m
      IN Contains(ret, <<"x",".","x",".">> \o Group(line, mt, 3) \o <<".">>
                         \o Group(line, mt, 4))

(***************************************************************************)
(* C4                                                                      *)
(***************************************************************************)
\* What is left of a match of the IPv6 substitution token that starts at a and
\* ends before e, after its first two hextets: the text from the second colon on.
RemainderStart(s, a, e) ==
  LET c1 == Least({i \in a..(e - 1) : s[i] = ":"})
  IN Least({i \in (c1 + 1)..e : i = e \/ s[i] \notin HexSet})

\* s with every match of the IPv6 substitution token replaced by y:y and the
\* match's remainder, everything else verbatim.
RECURSIVE RebuildV6(_, _, _, _)
RebuildV6(s, ms, k, p) ==
  IF k > Len(ms) THEN Slice(s, p, Len(s) + 1)
  ELSE Slice(s, p, ms[k].a) \o <<"y",":","y">>
         \o Slice(s, RemainderStart(s, ms[k].a, ms[k].m.p), ms[k].m.p)
         \o RebuildV6(s, ms, k + 1, ms[k].m.p)

ExpectedV6(s0) ==
  Strict(s0, LAMBDA s :
    Strict(Matches(ipv6_sub_pattern, s), LAMBDA ms : RebuildV6(s, ms, 1, 1)))

\* C4 (as claimed): replace_ips turns fe80:1234:5678::1 into y:y::1.
C4_Fe80BecomesYY1 ==
  (pc = "replace_ips" /\ line = FnLineFe80) => ret = <<"y",":","y",":",":","1">>

\* C4 (amended): replace_ips replaces the first two hextets of every match of the
\* IPv6 substitution token by y:y and keeps the rest of the match verbatim:
\* fe80:1234:5678::1 becomes y:y:5678::1, and ab:cd, which has no remainder,
\* becomes y:y.
C4_Ipv6RemainderVerbatim ==
  pc = "replace_ips" =>
    /\ ret = ExpectedV6(Sub(ipv4_pattern, ipv4_template, line))
    /\ line = FnLineFe80 =>
         ret = <<"y",":","y",":","5","6","7","8",":",":","1">>
    /\ line = FnLineAbCd => ret = <<"y",":","y">>

C4_Witness ==
  /\ pc = "replace_ips"
  /\ line = FnLineFe80
  /\ ret = <<"y",":","y",":","5","6","7","8",":",":","1">>

(***************************************************************************)
(* C5, C6                                                                  *)
(***************************************************************************)
\* The line's stripped form starts with "rd " and its value holds a ":".
IsRdLine(ln) ==
  /\ StartsWith(Strip(ln), <<"r","d"," ">>)
  /\ Len(SplitFirstWord(Strip(ln))) > 1
  /\ Len(RSplitColon(SplitFirstWord(Strip(ln))[2])) = 2

\* The value's parts before and after its last ":".
RdLead(ln) == RSplitColon(SplitFirstWord(Strip(ln))[2])[1]
RdTail(ln) == RSplitColon(SplitFirstWord(Strip(ln))[2])[2]

\* s is four groups of one to three digits, separated by dots.
IsIpv4Text(s) ==
  LET dots == {i \in DOMAIN s : s[i] = "."}
      ends == dots \cup {Len(s) + 1}
  IN /\ Cardinality(dots) = 3
     /\ \A i \in DOMAIN s : s[i] \in Digit \cup {"."}
     /\ \A e \in ends :
          LET before == {d \in dots : d < e}
              start == IF before = {} THEN 1
                       ELSE (CHOOSE d \in before : \A x \in before : x <= d) + 1
          IN e - start \in 1..3

\* C5: for a line whose stripped form starts with "rd " and whose value splits
\* on its last ":" into a lead that is neither an IPv4 token nor a valid IPv6
\* address (an AS number, as in "rd 65000:100"), process_line_for_ips returns
\* the line as it is, leading white space and line terminator included.
C5_RdAsNumberUnmodified ==
  (/\ pc = "process_line_for_ips"
   /\ IsRdLine(line)
   /\ ~IsIpv4Text(RdLead(line))
   /\ ~FullMatch(ipv6_pattern, RdLead(line))) => ret = line

C5_Witness ==
  /\ pc = "process_line_for_ips"
  /\ line = <<" ","r","d"," ","6","5","0","0","0",":","1","0","0","\n">>
  /\ ret = line

\* Where the value of an "rd" line starts, and where its second dot is.
RdValueStart(ln) ==
  Least({i \in DOMAIN ln : i > FirstNonSpace(ln) + 1 /\ ln[i] \notin Space})
RdSecondDot(ln) ==
  LET dots == {i \in DOMAIN ln : i >= RdValueStart(ln) /\ ln[i] = "."}
  IN Least(dots \ {Least(dots)})

\* C6: for a line whose stripped form starts with "rd " and whose value has an
\* IPv4 token before its last ":", process_line_for_ips returns the line with
\* IPv4 masking alone applied; when what follows the last ":" is a number, the
\* result is the line with the address's first two octets replaced by x.x and
\* everything else, the last two octets and the number included, verbatim.
C6_RdIpv4OnlyIpv4Masked ==
  (/\ pc = "process_line_for_ips"
   /\ IsRdLine(line)
   /\ IsIpv4Text(RdLead(line))) =>
    /\ ret = Sub(ipv4_pattern, ipv4_template, line)
    /\ (RdTail(line) # <<>> /\ \A i \in DOMAIN RdTail(line) : RdTail(line)[i] \in Digit)
         => ret = Slice(line, 1, RdValueStart(line)) \o <<"x",".","x">>
                    \o Slice(line, RdSecondDot(line), Len(line) + 1)

C6_Witness ==
  /\ pc = "process_line_for_ips"
  /\ line = <<"r","d"," ">> \o FnLineIpv4 \o <<":","1","0","0">>
  /\ ret = <<"r","d"," ","x",".","x",".","3","0",".","4","0",":","1","0","0">>
  /\ replace_ips(line) # ret

(***************************************************************************)
(* C7                                                                      *)
(***************************************************************************)
KwDescription == <<"d","e","s","c","r","i","p","t","i","o","n"," ">>
KwComment == <<"!"," ">>
TextDescriptionRemoved ==
  <<"d","e","s","c","r","i","p","t","i","o","n"," ","<","d","e","s","c","r","i","p",
    "t","i","o","n"," ","r","e","m","o","v","e","d",">">>
TextCommentRemoved ==
  <<"!"," ","<","c","o","m","m","e","n","t"," ","r","e","m","o","v","e","d",">">>

\* ln is leading white space, then the keyword kw, then at least one more
\* character of the line (the line terminator "\n" is not one).
HasShape(ln, kw) ==
  LET k == FirstNonSpace(ln)
  IN /\ OccursAt(kw, ln, k)
     /\ k + Len(kw) <= Len(ln)
     /\ ln[k + Len(kw)] # "\n"

\* The leading white space of ln, then text, then ln from its "\n" on.
Rewritten(ln, text) ==
  LET k == FirstNonSpace(ln)
      nl == Least({i \in DOMAIN ln : i > k /\ ln[i] = "\n"} \cup {Len(ln) + 1})
  IN Slice(ln, 1, k) \o text \o Slice(ln, nl, Len(ln) + 1)

\* C7: process_line_for_text_masking rewrites a line only when the filter's
\* flag is on and the line is leading white space, the keyword ("description "
\* or "! ") and at least one more character; the result is then the same
\* leading white space followed by "description <description removed>" or
\* "! <comment removed>".  A line that is only "!" is never rewritten, and no
\* line is rewritten by both filters.
C7_TextMasking ==
  pc = "process_line_for_text_masking" =>
    LET d == mask_desc /\ HasShape(line, KwDescription)
        c == mask_comment /\ HasShape(line, KwComment)
    IN /\ ~(d /\ c)
       /\ d => ret = Rewritten(line, TextDescriptionRemoved)
       /\ c => ret = Rewritten(line, TextCommentRemoved)
       /\ (~d /\ ~c) => ret = line
       /\ Slice(line, FirstNonSpace(line), Len(line) + 1)
            \in {<<"!">>, <<"!","\n">>, <<"!","\r","\n">>} => ret = line

C7_Witness ==
  /\ pc = "process_line_for_text_masking"
  /\ mask_desc /\ mask_comment
  /\ line = <<" ","!"," ","s","e","c","r","e","t","\n">>
  /\ ret = <<" ">> \o TextCommentRemoved \o <<"\n">>

(***************************************************************************)
(* C2                                                                      *)
(***************************************************************************)
KwVrfDefinition == <<"v","r","f"," ","d","e","f","i","n","i","t","i","o","n"," ">>

\* The name a "vrf definition <name>" line defines: after the line's leading
\* white space and the words "vrf definition ", the text up to the next white
\* space; <<>> when the line is no such line.
DefinedName(ln) ==
  LET k == FirstNonSpace(ln)
      a == k + Len(KwVrfDefinition)
      e == Least({i \in DOMAIN ln : i >= a /\ ln[i] \in Space} \cup {Len(ln) + 1})
  IN IF OccursAt(KwVrfDefinition, ln, k) THEN Slice(ln, a, e) ELSE <<>>

\* The distinct names the first n lines define, in the order of their first
\* appearance.
RECURSIVE FirstSeen(_, _)
FirstSeen(lines, n) ==
  IF n = 0 THEN <<>>
  ELSE Strict(FirstSeen(lines, n - 1), LAMBDA prev :
         IF DefinedName(lines[n]) = <<>> \/ DefinedName(lines[n]) \in Range(prev)
         THEN prev ELSE Append(prev, DefinedName(lines[n])))

\* names[k] bound to vrf_<k>
RegistryOf(names) ==
  [k \in DOMAIN names |-> [original |-> names[k],
                           masked |-> <<"v","r","f","_">> \o DecStr(k)]]

C2_State ==
  /\ pc = "pass1" => vrf_map = RegistryOf(FirstSeen(config_lines, idx - 1))
  /\ pc \in {"pass2", "done"} /\ mask_vrf_names =>
       /\ config_lines = input
       /\ vrf_map = RegistryOf(FirstSeen(input, Len(input)))
  /\ \A j, k \in DOMAIN vrf_map :
       j # k => /\ vrf_map[j].original # vrf_map[k].original
                /\ vrf_map[j].masked # vrf_map[k].masked

C2_Step ==
  /\ \A k \in DOMAIN vrf_map : k \in DOMAIN vrf_map' /\ vrf_map'[k] = vrf_map[k]
  /\ pc = "pass2" => vrf_map' = vrf_map

\* C2: after the discovery pass the registry maps each distinct name captured
\* from a "vrf definition <name>" line to vrf_<n>, n the 1-based rank of the
\* name's first appearance in the input (a repeated definition gets no new
\* number, distinct names get distinct pseudonyms); an entry, once made, never
\* changes, and the rewrite pass does not modify the registry.
C2_Registry == [](C2_State) /\ [][C2_Step]_vars

C2_Witness ==
  /\ pc = "done"
  /\ Len(input) = 3
  /\ DefinedName(input[1]) # <<>>
  /\ DefinedName(input[2]) = DefinedName(input[1])
  /\ Len(vrf_map) = 2
  /\ vrf_map[2].original = DefinedName(input[3])
  /\ vrf_map[2].masked = <<"v","r","f","_","2">>

(***************************************************************************)
(* C1                                                                      *)
(***************************************************************************)
\* C1 (as claimed): with -vrfname (and neither -desc nor -comment, which replace
\* the text of whole lines), every whole-word occurrence of a registered name in
\* an input line appears in the output line as that name's own pseudonym: the
\* output line holds the name's pseudonym at least as often as the input line
\* holds the name.
C1_EveryOccurrencePseudonymized ==
  (pc = "done" /\ mask_vrf_names /\ ~mask_desc /\ ~mask_comment) =>
    \A i \in DOMAIN stdout : \A k \in DOMAIN vrf_map :
      CountWord(vrf_map[k].masked, stdout[i]) >= CountWord(vrf_map[k].original, input[i])

(***************************************************************************)
(* C8                                                                      *)
(***************************************************************************)
HasIp(ln) == Matches(ipv4_pattern, ln) # <<>> \/ Matches(ipv6_sub_pattern, ln) # <<>>

\* C8 (as claimed): with -vrfname, for any line that contains both a registered
\* VRF name and an IP address, the name's pseudonym is present in the emitted
\* line.
C8_PseudonymInEmittedLine ==
  mask_vrf_names =>
    \A i \in DOMAIN stdout : \A k \in DOMAIN vrf_map :
      (CountWord(vrf_map[k].original, input[i]) > 0 /\ HasIp(input[i]))
        => Contains(stdout[i], vrf_map[k].masked)

\* C8 (amended): with -vrfname, the VRF rewrite runs first on every line, and
\* every pseudonym it leaves on a line is present, as often and unaltered, in
\* the emitted line, provided text masking does not rewrite the line: IP
\* masking never undoes or alters a pseudonym, also when the name overlapped
\* characters of an IP address.
C8_PseudonymSurvivesIpMasking ==
  mask_vrf_names =>
    \A i \in DOMAIN stdout :
      Strict(ReplaceVrfNames(input[i], vrf_map), LAMBDA v :
        process_line_for_text_masking(v, mask_desc, mask_comment) = v =>
          \A k \in DOMAIN vrf_map :
            CountSub(vrf_map[k].masked, stdout[i]) = CountSub(vrf_map[k].masked, v))

\* A line with an IP address whose octets are a registered name: the name's
\* pseudonym is in the emitted line, twice.
C8_Witness ==
  /\ mask_vrf_names /\ ~mask_desc
  /\ \E i \in DOMAIN stdout : \E k \in DOMAIN vrf_map :
       /\ HasIp(input[i])
       /\ vrf_map[k].original = <<"1","0">>
       /\ CountWord(vrf_map[k].original, input[i]) = 2
       /\ CountSub(vrf_map[k].masked, stdout[i]) = 2

(***************************************************************************)
(* C9                                                                      *)
(***************************************************************************)
EndsWith(s, w) == Len(s) >= Len(w) /\ OccursAt(w, s, Len(s) - Len(w) + 1)

\* The line terminator of s: CR LF, LF, or none.
Terminator(s) ==
  IF EndsWith(s, <<"\r","\n">>) THEN <<"\r","\n">>
  ELSE IF EndsWith(s, <<"\n">>) THEN <<"\n">> ELSE <<>>

\* C9 (as claimed): in both modes and for every combination of flags, the
\* output has as many lines as the input, the i-th emitted line is the
\* transformation of the i-th input line, and each emitted line ends with the
\* same line terminator, or absence of one, as its input line.
C9_LinesAndTerminatorsPreserved ==
  pc = "done" =>
    /\ Len(stdout) = Len(input)
    /\ \A i \in DOMAIN stdout :
         /\ stdout[i] = IF mask_vrf_names
                        THEN ProcessLineTwoPass(input[i], vrf_map, mask_desc, mask_comment)
                        ELSE ProcessLineOnePass(input[i], mask_desc, mask_comment)
         /\ Terminator(stdout[i]) = Terminator(input[i])

(***************************************************************************)
(* C10                                                                     *)
(***************************************************************************)
\* C10: with -vrfname no line is emitted before the whole input has been read
\* and the discovery pass has finished, so that a "vrf definition" late in the
\* input is in the registry when the first line is rewritten; without -vrfname
\* each line is emitted before the next one is read, and nothing is buffered.
C10_BufferedOrStreamed ==
  /\ ("-vrfname" \in args /\ stdout # <<>>) =>
       /\ stdin = <<>>
       /\ config_lines = input
       /\ pc \in {"pass2", "done"}
       /\ \A i \in DOMAIN input :
            DefinedName(input[i]) # <<>> => InVrfMap(DefinedName(input[i]), vrf_map)
  /\ "-vrfname" \notin args =>
       /\ config_lines = <<>>
       /\ (Len(input) - Len(stdin)) - Len(stdout) = IF pc = "stream_body" THEN 1 ELSE 0

\* The first line uses a name that only the second line defines, and has been
\* emitted.
C10_Witness ==
  /\ "-vrfname" \in args
  /\ Len(stdout) = 1
  /\ Len(input) >= 2
  /\ DefinedName(input[1]) = <<>>
  /\ DefinedName(input[2]) # <<>>
  /\ CountWord(DefinedName(input[2]), input[1]) > 0
  /\ Contains(stdout[1], <<"v","r","f","_","1">>)

====
